---- MODULE Spec2Model ----
(***************************************************************************)
(* Model of the acquisition/analysis engine:                               *)
(*   analysis/veolia_analysis.py  VeoliaTokenManager, analyze_image_veolia *)
(*   camera/local_camera.py       capture_image_local                      *)
(*   camera/reolink_camera.py     capture_image_reolink                    *)
(* One Python thread runs the code; pc is its position, stack the active   *)
(* calls.  Time is counted in ticks, TicksPerSec ticks to a second, so     *)
(* that the sub-second jitter of random.uniform(0, 1) has values.          *)
(***************************************************************************)
EXTENDS Integers, Sequences, FiniteSets, TLC

(*************************** bounds of the model ***************************)
TicksPerSec == 2
MaxTime == 12
MaxRetries == 3
MaxCaptureTime == 4
MaxLoopTime == 155
MaxSweepAge == 3
MaxRaceTime == 15
MaxCalls == 2

Sec(n) == n * TicksPerSec

(***************************** Python values *******************************)
PyNone == [py |-> "None", s |-> ""]
PyStr(x) == [py |-> "str", s |-> x]
PyDict(w) == [py |-> "dict", s |-> w]

\* bool(v): None, "" and {} are false
Truthy(v) ==
    CASE v.py = "None" -> FALSE
      [] v.py = "str"  -> v.s # ""
      [] v.py = "dict" -> v.s # "absent"

(*********************** credential exchange endpoint **********************)
ExpAbsent == [t |-> "absent", n |-> 0, d |-> <<>>]
ExpNull == [t |-> "null", n |-> 0, d |-> <<>>]
ExpInt(n) == [t |-> "int", n |-> n, d |-> <<>>]
ExpStr(d) == [t |-> "str", n |-> 0, d |-> d]

Digits == <<"0", "1", "2", "3", "4", "5", "6", "7", "8", "9">>
IsDigit(c) == \E i \in 1..10 : Digits[i] = c
DigitVal(c) == (CHOOSE i \in 1..10 : Digits[i] = c) - 1

RECURSIVE ParseDigits(_, _)
ParseDigits(d, acc) ==
    IF d = <<>> THEN acc ELSE ParseDigits(Tail(d), 10 * acc + DigitVal(Head(d)))

\* int(x) raises for None and for a string that is not a decimal numeral
IntRaises(e) ==
    \/ e.t = "null"
    \/ e.t = "str" /\ (e.d = <<>> \/ \E i \in 1..Len(e.d) : ~IsDigit(e.d[i]))

\* int(x) for the values it accepts
PyInt(e) == IF e.t = "int" THEN e.n ELSE ParseDigits(e.d, 0)

DefaultExpiresIn == 3600
SafetyMargin == 60

\* token_data.get("expires_in", 3600), in seconds
Lifetime(e) == IF e.t = "absent" THEN DefaultExpiresIn ELSE PyInt(e)

NoBody == [json |-> FALSE, has_token |-> FALSE, access_token |-> PyNone, expires_in |-> ExpAbsent]
JsonBody(tok, e) == [json |-> TRUE, has_token |-> TRUE, access_token |-> tok, expires_in |-> e]
JsonNoToken == [json |-> TRUE, has_token |-> FALSE, access_token |-> PyNone, expires_in |-> ExpInt(70)]

ExpiresInValues ==
    {ExpAbsent, ExpNull, ExpInt(10), ExpInt(60), ExpInt(61), ExpInt(70),
     ExpStr(<<"7", "0">>), ExpStr(<<"x">>)}

TokenValues == {PyStr("abc"), PyStr("def"), PyStr(""), PyNone}

TokenBodies ==
    {NoBody, JsonNoToken} \cup {JsonBody(tok, e) : tok \in TokenValues, e \in ExpiresInValues}

Transport == [kind |-> "exc", status |-> 0, body |-> NoBody]
Http(s, b) == [kind |-> "http", status |-> s, body |-> b]
NoResponse == [kind |-> "none", status |-> 0, body |-> NoBody]

TokenResponses ==
    {Transport, Http(401, JsonBody(PyStr("def"), ExpInt(70)))}
        \cup {Http(s, NoBody) : s \in {201, 401, 500}}
        \cup {Http(200, b) : b \in TokenBodies}

(**************************** analysis endpoint *****************************)
\* A response body is a sequence of lexical tokens; json.loads is a parse of it.
Ws == [t |-> "ws", v |-> " "]
Punct(c) == [t |-> "punct", v |-> c]
StrLit(x) == [t |-> "string", v |-> x]
Lit(x) == [t |-> "lit", v |-> x]
Junk == [t |-> "junk", v |-> "<"]

WaterObject(b) ==
    <<Punct("{"), StrLit("water_detected"), Punct(":"), Lit(b), Punct("}")>>

AnalysisTexts ==
    {WaterObject("true"), WaterObject("false"),
     <<Ws>> \o WaterObject("true") \o <<Ws>>,
     <<Punct("{"), Punct("}")>>,
     <<StrLit("no water")>>,
     <<Lit("null")>>,
     <<>>,
     <<Junk>>,
     <<Punct("{"), StrLit("water_detected"), Punct(":")>>}

\* str.strip(): leading and trailing white space removed
RECURSIVE StripLeft(_)
StripLeft(text) ==
    IF text # <<>> /\ Head(text).t = "ws" THEN StripLeft(Tail(text)) ELSE text

RECURSIVE StripRight(_)
StripRight(text) ==
    IF text # <<>> /\ text[Len(text)].t = "ws"
    THEN StripRight(SubSeq(text, 1, Len(text) - 1))
    ELSE text

Strip(text) == StripRight(StripLeft(text))

IsWs(tok) == tok.t = "ws"
NotWs(tok) == ~IsWs(tok)
Significant(text) == SelectSeq(text, NotWs)

IsBoolLit(tok) == tok.t = "lit" /\ tok.v \in {"true", "false"}

\* json.loads(text) raises json.JSONDecodeError
JsonDecodeError(text) ==
    LET k == Significant(text) IN
    ~ \/ Len(k) = 1 /\ k[1].t = "string"
      \/ Len(k) = 1 /\ k[1] = Lit("null")
      \/ Len(k) = 2 /\ k[1] = Punct("{") /\ k[2] = Punct("}")
      \/ /\ Len(k) = 5
         /\ k[1] = Punct("{") /\ k[2].t = "string" /\ k[3] = Punct(":")
         /\ IsBoolLit(k[4]) /\ k[5] = Punct("}")

\* json.loads(text) for a text it accepts
JsonLoads(text) ==
    LET k == Significant(text) IN
    CASE Len(k) = 1 /\ k[1].t = "string" -> PyStr(k[1].v)
      [] Len(k) = 1 /\ k[1].t # "string" -> PyNone
      [] Len(k) = 2 -> PyDict("absent")
      [] OTHER -> IF k[2].v = "water_detected" THEN PyDict(k[4].v) ELSE PyDict("other")

AHttp(s, text) == [kind |-> "http", status |-> s, text |-> text]
ATransport == [kind |-> "exc", status |-> 0, text |-> <<>>]
ANoResponse == [kind |-> "none", status |-> 0, text |-> <<>>]

AnalysisResponses ==
    {ATransport} \cup {AHttp(s, <<Junk>>) : s \in {401, 500}}
                 \cup {AHttp(200, text) : text \in AnalysisTexts}

(********************************* state ***********************************)
VARIABLES
    now,            \* time.time(), in ticks
    pc,             \* position of the thread
    stack,          \* the active calls, outermost first
    returned,       \* the call that has just returned to the caller, "" otherwise
    token, expiry,  \* VeoliaTokenManager.token, .expiry (expiry in ticks)
    life,           \* the lifetime (ticks) the cached expiry was computed from
    current_time,   \* get_token's local
    gt,             \* the get_token call as seen from outside
    retries, attempt, access_token,  \* analyze_image_veolia's locals
    an,             \* the analyze_image_veolia call as seen from outside
    cap,            \* the capture call: its locals, and what it did as seen from outside
    dirs,           \* the image directory exists
    disk,           \* the image directory: file name -> [complete] where files are
                    \* written, file name -> [mtime, fault] where they are swept
    config,         \* load_config()'s dictionary, as far as the loops read it
    consecutive_failures, start_time, loop_start,  \* capture_dataset.main's locals
    image_path, result,  \* the loops' locals
    file,           \* the image file of the capture in progress: "none", "partial", "complete"
    exit_status,    \* the process's exit status once pc = "exited"
    lp,             \* the running loop as seen from outside
    sweep,          \* cleanup_images' locals, and the call as seen from outside
    threads         \* the concurrent callers of get_token: thread -> its position and locals

tokenVars == <<token, expiry, life>>
callVars == <<current_time, gt, retries, attempt, access_token, an>>
captureVars == <<cap, dirs, disk>>
loopVars ==
    <<config, consecutive_failures, start_time, loop_start, image_path, result, file,
      exit_status, lp>>
vars ==
    <<now, pc, stack, returned, tokenVars, callVars, captureVars, loopVars, sweep,
      threads>>

\* What the credential cache and the analysis client never touch
outsideAnalysis == <<captureVars, loopVars, sweep, threads>>
\* What the capture sources never touch
outsideCapture == <<tokenVars, callVars, loopVars, sweep, threads>>
\* What the loops never touch
outsideLoops == <<tokenVars, callVars, captureVars, sweep, threads>>

CapIdle ==
    [fn |-> "", configured |-> TRUE, retries |-> 0, attempt |-> 0, path |-> 0,
     attempts |-> 0, fails |-> 0, sleeps |-> 0, handles |-> 0, ret |-> "",
     params |-> <<>>]

EmptyDisk == [n \in {} |-> [complete |-> TRUE]]

GtIdle == [reqs |-> 0, resp |-> NoResponse, ret |-> PyNone]

AnIdle ==
    [readable |-> TRUE, gtCalls |-> 0, reqs |-> 0, fails |-> 0, sleeps |-> 0,
     delay |-> 0, delayAfter |-> 0, resp |-> ANoResponse, ret |-> PyNone]

\* max_duration_seconds: None, or a number of seconds
NoDuration == [set |-> FALSE, v |-> 0]
Duration(n) == [set |-> TRUE, v |-> n]

\* The camera section of config.yaml: type, ip, user, password
Camera(type, ip, user, password) ==
    [type |-> type, ip |-> ip, user |-> user, password |-> password]

\* The settings of config.yaml and .env the loops read
Config(program, camera, interval, max_duration, drive_enabled, folder_id, prompt, veolia) ==
    [program |-> program, camera |-> camera, capture_interval |-> interval,
     max_duration_seconds |-> max_duration,
     drive_enabled |-> drive_enabled, drive_folder_id |-> folder_id,
     prompt |-> prompt, veolia |-> veolia]

\* No program has been started and no configuration loaded
NoConfig == [program |-> ""]

\* Nothing has happened in the loop: captures is the number of capture calls
\* made; run the number of them that returned None since the last that
\* returned a path; outcome, upload, analysis and swept what the current
\* iteration's steps came to; signalled: a shutdown signal was delivered;
\* cause why the process exited and at where it was then
LpIdle ==
    [captures |-> 0, run |-> 0, outcome |-> "", upload |-> "", analysis |-> "",
     swept |-> FALSE, signalled |-> FALSE, cause |-> "", at |-> "", began |-> 0]

\* The capture call has come to outcome
Observed(l, outcome) ==
    [l EXCEPT !.outcome = outcome,
              !.run = IF outcome = "None" THEN @ + 1 ELSE IF outcome = "path" THEN 0 ELSE @]

\* cleanup_images has not been called
NoSweep == [ret |-> ""]

\* No concurrent caller has been started
NoThreads == <<>>

Init ==
    /\ now = 0
    /\ pc = "idle"
    /\ stack = <<>>
    /\ returned = ""
    /\ token = PyNone
    /\ expiry = 0
    /\ life = 0
    /\ current_time = 0
    /\ gt = GtIdle
    /\ retries = 0
    /\ attempt = 0
    /\ access_token = PyNone
    /\ an = AnIdle
    /\ cap = CapIdle
    /\ dirs = FALSE
    /\ disk = EmptyDisk
    /\ config = NoConfig
    /\ consecutive_failures = 0
    /\ start_time = 0
    /\ loop_start = 0
    /\ image_path = PyNone
    /\ result = PyNone
    /\ file = "none"
    /\ exit_status = 0
    /\ lp = LpIdle
    /\ sweep = NoSweep
    /\ threads = NoThreads

\* The caller takes the result, the finished call's frame is gone, and the
\* caller waits d ticks before its next call
IdleSteps == {Sec(5), Sec(6)}

Tick ==
    /\ pc = "idle"
    /\ \E d \in IdleSteps : now + d <= Sec(MaxTime) /\ now' = now + d
    /\ returned' = ""
    /\ current_time' = 0
    /\ gt' = GtIdle
    /\ retries' = 0
    /\ attempt' = 0
    /\ access_token' = PyNone
    /\ an' = AnIdle
    /\ cap' = CapIdle
    /\ UNCHANGED <<pc, stack, tokenVars, dirs, disk, loopVars, sweep, threads>>

\* Time passes while a request is in flight
Latencies == {0, Sec(1)}

(************************ VeoliaTokenManager.get_token *********************)
CacheHitNoMargin(tok, exp, t) == Truthy(tok) /\ t < exp
CacheHitDoubleMargin(tok, exp, t) == Truthy(tok) /\ t < exp - 2 * Sec(SafetyMargin)
CacheHitMarginAdded(tok, exp, t) == Truthy(tok) /\ t < exp + Sec(SafetyMargin)

\* line 28: the cached token is served
CacheHit(tok, exp, t) == Truthy(tok) /\ t < exp - Sec(SafetyMargin)

ExchangeOkAnyStatus(r) == r.kind = "http"

\* line 41
ExchangeOk(r) == r.kind = "http" /\ r.status = 200

\* lines 42-43 complete: response.json() and token_data["access_token"] do not raise
TokenAssigned(r) == ExchangeOk(r) /\ r.body.json /\ r.body.has_token

\* line 44 completes: int(...) does not raise
ExpiryAssigned(r) == TokenAssigned(r) /\ ~IntRaises(r.body.expires_in)

\* line 43
StoredToken(tok, r) == IF TokenAssigned(r) THEN r.body.access_token ELSE tok

NewExpiryAtArrival(t_call, arrival, e) == arrival + Sec(Lifetime(e))

\* line 44: t_call is the time read at line 26, arrival the time the response came
NewExpiry(t_call, arrival, e) == t_call + Sec(Lifetime(e))

StoredExpiry(exp, t_call, arrival, r) ==
    IF ExpiryAssigned(r) THEN NewExpiry(t_call, arrival, r.body.expires_in) ELSE exp

\* lines 46, 49, 52
TokenReturned(r) == IF ExpiryAssigned(r) THEN r.body.access_token ELSE PyNone

GtBeginSendsTwice(t) ==
    [reqs |-> IF CacheHit(token, expiry, t) THEN 0 ELSE 2,
     resp |-> NoResponse,
     ret |-> IF CacheHit(token, expiry, t) THEN token ELSE PyNone]

\* lines 26-40 of a call made at time t: the cache is hit, or the request is sent
GtBegin(t) ==
    [reqs |-> IF CacheHit(token, expiry, t) THEN 0 ELSE 1,
     resp |-> NoResponse,
     ret |-> IF CacheHit(token, expiry, t) THEN token ELSE PyNone]

\* get_token() called directly: lines 26-40
GetTokenCall ==
    /\ pc = "idle"
    /\ current_time' = now
    /\ gt' = GtBegin(now)
    /\ IF CacheHit(token, expiry, now)
       THEN pc' = "idle" /\ stack' = <<>> /\ returned' = "get_token"
       ELSE pc' = "gt_post" /\ stack' = <<"get_token">> /\ returned' = ""
    /\ UNCHANGED <<now, tokenVars, retries, attempt, access_token, an, outsideAnalysis>>

(******************* get_token called by concurrent callers ****************)
\* The threads that share one VeoliaTokenManager
Callers == {1, 2}

\* A thread outside get_token: `at` is its position, current_time and resp its
\* locals, ret what its last call returned, calls the calls it has made
CallerReady == [at |-> "ready", current_time |-> 0, resp |-> NoResponse, ret |-> PyNone, calls |-> 0]

\* What the endpoint answers to the concurrent callers
RaceResponses ==
    {Transport, Http(500, NoBody),
     Http(200, JsonBody(PyStr("abc"), ExpInt(70))),
     Http(200, JsonBody(PyStr("def"), ExpInt(70)))}

\* The surrounding application runs its callers on threads of their own
ThreadsStart ==
    /\ pc = "idle"
    /\ threads = NoThreads
    /\ returned = ""
    /\ threads' = [t \in Callers |-> CallerReady]
    /\ UNCHANGED <<now, pc, stack, returned, tokenVars, callVars, captureVars, loopVars, sweep>>

\* Nothing but the threads and the cache they share changes
outsideThreads == <<pc, stack, returned, callVars, captureVars, loopVars, sweep>>

\* Time passes for every thread
ThreadsTick ==
    /\ threads # NoThreads
    /\ now + Sec(5) <= Sec(MaxRaceTime)
    /\ now' = now + Sec(5)
    /\ UNCHANGED <<threads, tokenVars, outsideThreads>>

\* line 26
ThreadCall(t) ==
    /\ t \in DOMAIN threads
    /\ threads[t].at = "ready"
    /\ threads[t].calls < MaxCalls
    /\ threads' = [threads EXCEPT ![t] = [@ EXCEPT !.at = "check", !.current_time = now,
                                                    !.ret = PyNone, !.calls = @ + 1]]
    /\ UNCHANGED <<now, tokenVars, outsideThreads>>

\* lines 28 and 31-40: the cache is hit, or the request is sent; nothing is
\* held between the test and the request
ThreadCheck(t) ==
    /\ t \in DOMAIN threads
    /\ threads[t].at = "check"
    /\ threads' = [threads EXCEPT ![t] =
            IF CacheHit(token, expiry, threads[t].current_time)
            THEN [@ EXCEPT !.at = "hit"]
            ELSE [@ EXCEPT !.at = "post"]]
    /\ UNCHANGED <<now, tokenVars, outsideThreads>>

\* line 29: self.token is read again for the return
ThreadServeCached(t) ==
    /\ t \in DOMAIN threads
    /\ threads[t].at = "hit"
    /\ threads' = [threads EXCEPT ![t] = [@ EXCEPT !.at = "ready", !.ret = token]]
    /\ UNCHANGED <<now, tokenVars, outsideThreads>>

\* lines 40-41 and 48-52: the response arrives
ThreadResponse(t) ==
    /\ t \in DOMAIN threads
    /\ threads[t].at = "post"
    /\ \E r \in RaceResponses :
        threads' = [threads EXCEPT ![t] =
            IF TokenAssigned(r)
            THEN [@ EXCEPT !.at = "store_token", !.resp = r]
            ELSE [@ EXCEPT !.at = "ready", !.ret = PyNone]]
    /\ UNCHANGED <<now, tokenVars, outsideThreads>>

\* line 43
ThreadStoreToken(t) ==
    /\ t \in DOMAIN threads
    /\ threads[t].at = "store_token"
    /\ token' = StoredToken(token, threads[t].resp)
    /\ threads' = [threads EXCEPT ![t] =
            IF ExpiryAssigned(threads[t].resp)
            THEN [@ EXCEPT !.at = "store_expiry"]
            ELSE [@ EXCEPT !.at = "ready", !.resp = NoResponse, !.ret = PyNone]]
    /\ UNCHANGED <<now, expiry, life, outsideThreads>>

\* lines 44-46: the expiry is stored, and self.token is read again for the return
ThreadStoreExpiry(t) ==
    /\ t \in DOMAIN threads
    /\ threads[t].at = "store_expiry"
    /\ expiry' = StoredExpiry(expiry, threads[t].current_time, now, threads[t].resp)
    /\ threads' = [threads EXCEPT ![t] =
            [@ EXCEPT !.at = "ready", !.resp = NoResponse, !.ret = token]]
    /\ UNCHANGED <<now, token, life, outsideThreads>>

(************************** analyze_image_veolia ***************************)
LoopContinuesOffByOne(k, n) == k + 1 <= n

\* line 120: for attempt in range(retries) has another round after round k
LoopContinues(k, n) == k + 1 < n

BackoffDelayLinear(k, jitter) == Sec(2 * k) + jitter

\* line 140: 2 ** attempt + random.uniform(0, 1), the jitter in ticks
BackoffDelay(k, jitter) == Sec(2 ^ k) + jitter
Jitter == 0..(TicksPerSec - 1)

AttemptOutcomeDropsResult(r) ==
    IF r.kind = "http" /\ r.status = 200 THEN "malformed" ELSE "retry"

AttemptOutcomeRetriesMalformed(r) ==
    IF r.kind = "http" /\ r.status = 200 /\ ~JsonDecodeError(Strip(r.text))
    THEN "result"
    ELSE "retry"

\* lines 123-139: what one attempt's response makes of the call
AttemptOutcome(r) ==
    CASE r.kind = "http" /\ r.status = 200 /\ ~JsonDecodeError(Strip(r.text)) -> "result"
      [] r.kind = "http" /\ r.status = 200 /\ JsonDecodeError(Strip(r.text)) -> "malformed"
      [] OTHER -> "retry"

TokenUsableAlways(v) == TRUE

\* line 90: the call goes on with what get_token returned
TokenUsable(v) == Truthy(v)

\* lines 89-122, v being what get_token returned, n the retries argument
AnalyzeContinue(v, n, a) ==
    /\ access_token' = v
    /\ IF TokenUsable(v) /\ n > 0
       THEN /\ pc' = "an_post"
            /\ stack' = <<"analyze_image_veolia">>
            /\ returned' = ""
            /\ attempt' = 0
            /\ an' = [a EXCEPT !.reqs = 1]
       ELSE /\ pc' = "idle"
            /\ stack' = <<>>
            /\ returned' = "analyze_image_veolia"
            /\ attempt' = attempt
            /\ an' = [a EXCEPT !.ret = PyNone]

ImageLoadedAlways(readable) == TRUE

\* lines 80-86: the file was read and encoded, and the call goes on
ImageLoaded(readable) == readable

\* analyze_image_veolia(...) called: lines 80-122, up to the first request sent
AnalyzeCall ==
    /\ pc = "idle"
    /\ \E readable \in BOOLEAN, n \in 0..MaxRetries :
        /\ retries' = n
        /\ IF ~ImageLoaded(readable)
           THEN \* lines 84-86
                /\ pc' = "idle" /\ stack' = <<>> /\ returned' = "analyze_image_veolia"
                /\ an' = [AnIdle EXCEPT !.readable = FALSE]
                /\ UNCHANGED <<attempt, access_token, current_time, gt>>
           ELSE /\ current_time' = now
                /\ gt' = GtBegin(now)
                /\ IF CacheHit(token, expiry, now)
                   THEN AnalyzeContinue(token, n, [AnIdle EXCEPT !.readable = readable, !.gtCalls = 1])
                   ELSE /\ pc' = "gt_post"
                        /\ stack' = <<"analyze_image_veolia", "get_token">>
                        /\ returned' = ""
                        /\ an' = [AnIdle EXCEPT !.readable = readable, !.gtCalls = 1]
                        /\ UNCHANGED <<attempt, access_token>>
    /\ UNCHANGED <<now, tokenVars, outsideAnalysis>>

\* The exchange answers with r after lat ticks, or the transport fails:
\* get_token lines 40-52 and, when analyze_image_veolia made the call, its
\* lines 89-122
TokenResponseOf(r, lat) ==
    /\ pc = "gt_post"
    /\ now + lat <= Sec(MaxTime)
    /\ now' = now + lat
    /\ token' = StoredToken(token, r)
    /\ expiry' = StoredExpiry(expiry, current_time, now + lat, r)
    /\ life' = IF ExpiryAssigned(r) THEN Sec(Lifetime(r.body.expires_in)) ELSE life
    /\ gt' = [gt EXCEPT !.resp = r, !.ret = TokenReturned(r)]
    /\ IF stack = <<"get_token">>
       THEN /\ pc' = "idle" /\ stack' = <<>> /\ returned' = "get_token"
            /\ UNCHANGED <<retries, attempt, access_token, an>>
       ELSE /\ AnalyzeContinue(TokenReturned(r), retries, an)
            /\ UNCHANGED retries
    /\ UNCHANGED <<current_time, outsideAnalysis>>

TokenResponse == \E r \in TokenResponses, lat \in Latencies : TokenResponseOf(r, lat)

\* The exchange responses the analysis runs are checked with: one per path of
\* get_token
AnalysisTokenResponses ==
    {Transport, Http(500, NoBody),
     Http(200, JsonBody(PyStr("abc"), ExpInt(70))),
     Http(200, JsonBody(PyStr(""), ExpInt(70))),
     Http(200, JsonBody(PyStr("def"), ExpStr(<<"x">>)))}

AnalysisTokenResponse ==
    \E r \in AnalysisTokenResponses, lat \in Latencies : TokenResponseOf(r, lat)

\* The analysis endpoint answers, or the transport fails: lines 122-139
AnalysisResponse ==
    /\ pc = "an_post"
    /\ \E r \in AnalysisResponses, lat \in Latencies :
        /\ now + lat <= Sec(MaxTime)
        /\ now' = now + lat
        /\ IF AttemptOutcome(r) = "retry"
           THEN /\ pc' = "an_sleep"
                /\ an' = [an EXCEPT !.resp = r, !.fails = @ + 1]
                /\ UNCHANGED <<stack, returned>>
           ELSE /\ pc' = "idle" /\ stack' = <<>> /\ returned' = "analyze_image_veolia"
                /\ an' = [an EXCEPT !.resp = r,
                                    !.ret = IF AttemptOutcome(r) = "result"
                                            THEN JsonLoads(Strip(r.text))
                                            ELSE PyNone]
    /\ UNCHANGED <<tokenVars, current_time, gt, retries, attempt, access_token, outsideAnalysis>>

\* line 140, then the loop's next round (line 122) or lines 142-143
AnalysisSleep ==
    /\ pc = "an_sleep"
    /\ \E j \in Jitter :
        /\ now + BackoffDelay(attempt, j) <= Sec(MaxTime)
        /\ now' = now + BackoffDelay(attempt, j)
        /\ IF LoopContinues(attempt, retries)
           THEN /\ pc' = "an_post"
                /\ an' = [an EXCEPT !.sleeps = @ + 1, !.delay = BackoffDelay(attempt, j),
                                    !.delayAfter = attempt, !.reqs = @ + 1]
                /\ UNCHANGED <<stack, returned>>
           ELSE /\ pc' = "idle" /\ stack' = <<>> /\ returned' = "analyze_image_veolia"
                /\ an' = [an EXCEPT !.sleeps = @ + 1, !.delay = BackoffDelay(attempt, j),
                                    !.delayAfter = attempt, !.ret = PyNone]
    /\ attempt' = attempt + 1
    /\ UNCHANGED <<tokenVars, current_time, gt, retries, access_token, outsideAnalysis>>

(***************************** capture sources *****************************)
\* time.strftime("%Y%m%d-%H%M%S"): the file name has the resolution of a second
Stamp(t) == t \div TicksPerSec

\* The file `name` is created or truncated, and written wholly or in part
WriteFile(d, name, complete) ==
    [n \in DOMAIN d \cup {name} |-> IF n = name THEN [complete |-> complete] ELSE d[n]]

\* The capture call returns r (a path, None) or ends with an exception
CaptureEnds(fn, c) ==
    /\ pc' = "idle"
    /\ stack' = <<>>
    /\ returned' = fn
    /\ cap' = c

LocalLoopContinuesOffByOne(k, n) == k + 1 < n - 1

\* local_camera.py line 22: for attempt in range(retries) has another round
LocalLoopContinues(k, n) == k + 1 < n

\* capture_image_local(...) called: lines 20-22
CaptureLocalCall ==
    /\ pc = "idle"
    /\ dirs' = TRUE
    /\ \E n \in 0..MaxRetries :
        IF n > 0
        THEN /\ pc' = "cl_read"
             /\ stack' = <<"capture_image_local">>
             /\ returned' = ""
             /\ cap' = [CapIdle EXCEPT !.fn = "local", !.retries = n]
        ELSE CaptureEnds("capture_image_local",
                         [CapIdle EXCEPT !.fn = "local", !.retries = n, !.ret = "None"])
    /\ UNCHANGED <<now, disk, outsideCapture>>

\* One attempt, lines 23-36: the device is opened, read and released; the
\* frame is written (cv2.imwrite reports a failed write by its result, which
\* the code drops); a read that raises leaves the function at line 24
LocalAttempt ==
    /\ pc = "cl_read"
    /\ \E o \in {"frame", "noframe", "raise"}, written \in BOOLEAN :
        CASE o = "frame" ->
                /\ disk' = IF written THEN WriteFile(disk, Stamp(now), TRUE) ELSE disk
                /\ CaptureEnds("capture_image_local",
                               [cap EXCEPT !.attempts = @ + 1, !.path = Stamp(now),
                                           !.ret = "path"])
          [] o = "noframe" ->
                /\ pc' = "cl_sleep"
                /\ cap' = [cap EXCEPT !.attempts = @ + 1, !.fails = @ + 1]
                /\ UNCHANGED <<stack, returned, disk>>
          [] o = "raise" ->
                /\ CaptureEnds("capture_image_local",
                               [cap EXCEPT !.attempts = @ + 1, !.handles = 1,
                                           !.ret = "raise"])
                /\ UNCHANGED disk
    /\ UNCHANGED <<now, dirs, outsideCapture>>

\* line 36, then the loop's next round or lines 38-39
LocalSleep ==
    /\ pc = "cl_sleep"
    /\ now + Sec(1) <= Sec(MaxCaptureTime)
    /\ now' = now + Sec(1)
    /\ IF LocalLoopContinues(cap.attempt, cap.retries)
       THEN /\ pc' = "cl_read"
            /\ cap' = [cap EXCEPT !.sleeps = @ + 1, !.attempt = @ + 1]
            /\ UNCHANGED <<stack, returned>>
       ELSE CaptureEnds("capture_image_local",
                        [cap EXCEPT !.sleeps = @ + 1, !.attempt = @ + 1, !.ret = "None"])
    /\ UNCHANGED <<dirs, disk, outsideCapture>>

\* The values a camera parameter of config.yaml may have
CamParamValues == {PyNone, PyStr(""), PyStr("set")}

ConfigCompleteWithoutPassword(ip, user, password) == Truthy(ip) /\ Truthy(user)

\* reolink_camera.py line 28
ConfigComplete(ip, user, password) == Truthy(ip) /\ Truthy(user) /\ Truthy(password)

ReolinkLoopContinuesOffByOne(k, n) == k + 1 <= n

\* reolink_camera.py line 49
ReolinkLoopContinues(k, n) == k + 1 < n

\* capture_image_reolink(...) called: lines 23-51, up to the first request
CaptureReolinkCall ==
    /\ pc = "idle"
    /\ \E ip \in CamParamValues, user \in CamParamValues, password \in CamParamValues,
          n \in 0..MaxRetries :
        IF ~ConfigComplete(ip, user, password)
        THEN /\ CaptureEnds("capture_image_reolink",
                            [CapIdle EXCEPT !.fn = "reolink", !.configured = FALSE,
                                            !.retries = n, !.ret = "None",
                                            !.params = <<ip, user, password>>])
             /\ UNCHANGED dirs
        ELSE /\ dirs' = TRUE
             /\ IF n > 0
                THEN /\ pc' = "cr_get"
                     /\ stack' = <<"capture_image_reolink">>
                     /\ returned' = ""
                     /\ cap' = [CapIdle EXCEPT !.fn = "reolink", !.retries = n,
                                               !.path = Stamp(now),
                                               !.params = <<ip, user, password>>]
                ELSE CaptureEnds("capture_image_reolink",
                                 [CapIdle EXCEPT !.fn = "reolink", !.retries = n,
                                                 !.path = Stamp(now), !.ret = "None",
                                                 !.params = <<ip, user, password>>])
    /\ UNCHANGED <<now, disk, outsideCapture>>

\* The camera answers, or the transport fails: lines 51-61.  "ok": 200 and the
\* body streamed to the file; "broken": 200 and the stream fails after the
\* file was opened; "openfails": 200 and open() raises
ReolinkResponse ==
    /\ pc = "cr_get"
    /\ \E o \in {"ok", "broken", "openfails", "non200", "exc"}, lat \in Latencies :
        /\ now + lat <= Sec(MaxCaptureTime)
        /\ now' = now + lat
        /\ IF o = "ok"
           THEN /\ disk' = WriteFile(disk, cap.path, TRUE)
                /\ CaptureEnds("capture_image_reolink",
                               [cap EXCEPT !.attempts = @ + 1, !.ret = "path"])
           ELSE /\ disk' = IF o = "broken"
                           THEN WriteFile(disk, cap.path, FALSE)
                           ELSE disk
                /\ pc' = "cr_sleep"
                /\ cap' = [cap EXCEPT !.attempts = @ + 1, !.fails = @ + 1]
                /\ UNCHANGED <<stack, returned>>
    /\ UNCHANGED <<dirs, outsideCapture>>

\* line 62, then the loop's next round or lines 64-66
ReolinkSleep ==
    /\ pc = "cr_sleep"
    /\ now + Sec(1) <= Sec(MaxCaptureTime)
    /\ now' = now + Sec(1)
    /\ IF ReolinkLoopContinues(cap.attempt, cap.retries)
       THEN /\ pc' = "cr_get"
            /\ cap' = [cap EXCEPT !.sleeps = @ + 1, !.attempt = @ + 1]
            /\ UNCHANGED <<stack, returned>>
       ELSE CaptureEnds("capture_image_reolink",
                        [cap EXCEPT !.sleeps = @ + 1, !.attempt = @ + 1, !.ret = "None"])
    /\ UNCHANGED <<dirs, disk, outsideCapture>>

(*************************** the loops' process ****************************)
\* The cameras of the configurations: the local webcam, and the network
\* camera with its parameters complete or one of them missing
Cameras ==
    {Camera("local", PyNone, PyNone, PyNone),
     Camera("reolink", PyStr("set"), PyStr("set"), PyStr("set")),
     Camera("reolink", PyNone, PyStr("set"), PyStr("set")),
     Camera("reolink", PyStr("set"), PyStr("set"), PyStr(""))}

\* capture_image_reolink's check of the configured camera
CameraComplete(c) == ConfigComplete(c.ip, c.user, c.password)

\* The exceptions of the model are "Exception", any instance of a subclass of
\* Exception, and "SystemExit", which sys.exit raises

ExceptExceptionBare(exc) == TRUE

\* `except Exception` handles exc
ExceptException(exc) == exc = "Exception"

\* The status the interpreter exits with when exc reaches the top level
ExitStatusOf(exc, code) == IF exc = "SystemExit" THEN code ELSE 1

\* The process ends with the given status
Exits(status, l, cause) ==
    /\ pc' = "exited"
    /\ exit_status' = status
    /\ lp' = [l EXCEPT !.cause = cause, !.at = pc]

\* exc is raised where the thread is; inTry: the place is inside
\* capture_dataset.main's try block (lines 56-116)
Raised(exc, code, inTry, l, cause) ==
    IF inTry /\ ExceptException(exc)
    THEN pc' = "ds_exc_pause" /\ exit_status' = exit_status /\ lp' = l
    ELSE Exits(ExitStatusOf(exc, code), l, cause)

\* The positions of capture_dataset.main inside its try block
TryRegion == {"ds_capture", "ds_write", "ds_upload", "ds_pause"}

\* The positions of a running loop
DatasetPcs == {"ds_top", "ds_capture", "ds_write", "ds_upload", "ds_pause", "ds_exc_pause", "ds_sleep"}
AlertPcs == {"ml_capture", "ml_write", "ml_analyze", "ml_cleanup", "ml_sleep"}

\* signal_handler (capture_dataset.py lines 12-17, main.py lines 14-19) runs
\* between two instructions of the thread, wherever it is, and raises
\* SystemExit(0) there
Signal ==
    /\ pc \in DatasetPcs \cup AlertPcs
    /\ Raised("SystemExit", 0, pc \in TryRegion, [lp EXCEPT !.signalled = TRUE], "signal")
    /\ UNCHANGED <<now, stack, returned, outsideLoops, config,
                   consecutive_failures, start_time, loop_start, image_path, result, file>>

(*************************** capture_dataset.main **************************)
MAX_CONSECUTIVE_FAILURES == 10
FailurePause == 10

\* A maximum duration (seconds) long enough for ten failed captures in a
\* row, and such that the iteration under way when it is reached ends within
\* the time the loops are followed for
LongDuration == MaxLoopTime - 15

\* The settings capture_dataset.py is run with
DatasetConfigs ==
    {Config("dataset", c, 10, d, u[1], u[2], PyNone, <<PyNone, PyNone, PyNone, PyNone>>) :
        c \in Cameras, d \in {NoDuration, Duration(0), Duration(25), Duration(LongDuration)},
        u \in {<<FALSE, PyNone>>, <<TRUE, PyNone>>, <<TRUE, PyStr("set")>>}}

\* lines 20-45
DatasetStart ==
    /\ pc = "idle"
    /\ config = NoConfig
    /\ config' \in DatasetConfigs
    /\ start_time' = now
    /\ consecutive_failures' = 0
    /\ pc' = "ds_top"
    /\ lp' = LpIdle
    /\ UNCHANGED <<now, stack, returned, outsideLoops, loop_start,
                   image_path, result, file, exit_status>>

DurationReachedStrictly(d, elapsed) == d.set /\ elapsed > Sec(d.v)
DurationReachedNever(d, elapsed) == FALSE

\* lines 50-52
DurationReached(d, elapsed) == d.set /\ elapsed >= Sec(d.v)

\* lines 48-68 (80): the duration check, the daily folder, the capture called
DatasetIterate ==
    /\ pc = "ds_top"
    /\ loop_start' = now
    /\ IF DurationReached(config.max_duration_seconds, now - start_time)
       THEN \* line 54 and line 133: main returns
            /\ Exits(0, lp, "duration")
            /\ UNCHANGED file
       ELSE \E makedirs \in {"ok", "raises"} :
            IF makedirs = "ok"
            THEN /\ pc' = "ds_capture"
                 /\ lp' = [lp EXCEPT !.captures = @ + 1, !.outcome = "", !.upload = "",
                                      !.began = now]
                 /\ file' = "none"
                 /\ UNCHANGED exit_status
            ELSE /\ Raised("Exception", 0, TRUE,
                           [lp EXCEPT !.outcome = "raise", !.upload = "", !.began = now],
                           "exception")
                 /\ UNCHANGED file
    /\ UNCHANGED <<now, stack, returned, outsideLoops, config,
                   consecutive_failures, start_time, image_path, result>>

FatalFailuresOneLate(n) == n > MAX_CONSECUTIVE_FAILURES
FatalFailuresNever(n) == FALSE

\* lines 72, 84
FatalFailures(n) == n >= MAX_CONSECUTIVE_FAILURES

CountedFailuresWithExceptions(n, outcome) ==
    IF outcome \in {"None", "raise"} THEN n + 1 ELSE IF outcome = "path" THEN 0 ELSE n

\* lines 70, 78, 82, 90: the counter after a capture that came to outcome
CountedFailures(n, outcome) ==
    CASE outcome = "None" -> n + 1
      [] outcome = "path" -> 0
      [] OTHER -> n

\* lines 96-97: the upload is tried
UploadTried(c) == c.drive_enabled /\ Truthy(c.drive_folder_id)

AfterCaptureNoContinue(outcome, c) == IF UploadTried(c) THEN "ds_upload" ELSE "ds_sleep"

\* lines 69-76 (81-88) and 96-101: where the iteration goes on after a capture
\* that returned: to the pause and `continue`, to the upload, or to the
\* cadence sleep
AfterCapture(outcome, c) ==
    IF outcome = "None" THEN "ds_pause"
    ELSE IF UploadTried(c) THEN "ds_upload" ELSE "ds_sleep"

\* lines 69-99: the capture call has come to outcome (a path, None, or an
\* exception it raised) with the image file in state f
DatasetCaptured(outcome, f) ==
    /\ file' = f
    /\ consecutive_failures' = CountedFailures(consecutive_failures, outcome)
    /\ image_path' = IF outcome = "path" THEN PyStr("path")
                     ELSE IF outcome = "None" THEN PyNone ELSE image_path
    /\ CASE outcome = "None" ->
                IF FatalFailures(consecutive_failures')
                THEN Raised("SystemExit", 1, TRUE, Observed(lp, outcome), "fatal")
                ELSE /\ pc' = AfterCapture(outcome, config)
                     /\ lp' = Observed(lp, outcome)
                     /\ UNCHANGED exit_status
         [] outcome = "path" ->
                /\ pc' = AfterCapture(outcome, config)
                /\ lp' = Observed(lp, outcome)
                /\ UNCHANGED exit_status
         [] OTHER ->
                Raised("Exception", 0, TRUE, Observed(lp, outcome), "exception")

\* The time a capture call takes when every attempt fails: retries (3) sleeps
\* of 1 s and the time of the attempts
FailedCaptureTime == 5

\* What a capture call comes to, the camera being c: "None" at once when the
\* network camera's parameters are incomplete; otherwise None after the
\* attempts, an exception, the path (local: cv2.imwrite has written the
\* frame) or "open" (network: the response is 200, the file is open and the
\* first chunks are written)
CaptureOutcomes(c) ==
    IF c.type = "reolink"
    THEN IF CameraComplete(c) THEN {"None", "raise", "open"} ELSE {"None"}
    ELSE {"None", "raise", "path"}

CaptureTime(c, o) ==
    IF o = "None" /\ (c.type # "reolink" \/ CameraComplete(c)) THEN Sec(FailedCaptureTime) ELSE 0

\* The capture call of lines 68, 80 runs, up to its return or to the file's
\* being open
DatasetCapture ==
    /\ pc = "ds_capture"
    /\ \E o \in CaptureOutcomes(config.camera) :
        /\ now + CaptureTime(config.camera, o) <= Sec(MaxLoopTime)
        /\ now' = now + CaptureTime(config.camera, o)
        /\ IF o = "open"
           THEN /\ pc' = "ds_write"
                /\ file' = "partial"
                /\ UNCHANGED <<consecutive_failures, image_path, exit_status, lp>>
           ELSE DatasetCaptured(o, IF o = "path" THEN "complete" ELSE file)
    /\ UNCHANGED <<stack, returned, outsideLoops, config,
                   start_time, loop_start, result>>

\* reolink_camera.py lines 54-66: the rest of the chunks is written and the
\* path returned, or the stream raises, the attempt has failed and so do the
\* attempts after it
DatasetWrite ==
    /\ pc = "ds_write"
    /\ \E o \in {"written", "broken"} :
        IF o = "written"
        THEN /\ DatasetCaptured("path", "complete")
             /\ UNCHANGED now
        ELSE /\ now + Sec(FailedCaptureTime) <= Sec(MaxLoopTime)
             /\ now' = now + Sec(FailedCaptureTime)
             /\ DatasetCaptured("None", "partial")
    /\ UNCHANGED <<stack, returned, outsideLoops, config,
                   start_time, loop_start, result>>

\* lines 75-76, 87-88: time.sleep(10); continue
DatasetPause ==
    /\ pc = "ds_pause"
    /\ now + Sec(FailurePause) <= Sec(MaxLoopTime)
    /\ now' = now + Sec(FailurePause)
    /\ pc' = "ds_top"
    /\ UNCHANGED <<stack, returned, outsideLoops, loopVars>>

\* The time (seconds) an upload may take: less than the capture interval,
\* the interval, more
UploadTimes == {5, 10, 15}

AfterUploadRaiseEscapes(o) == IF o = "raise" THEN "ds_exc_pause" ELSE "ds_sleep"

\* lines 107-115: whatever upload_file came to, the iteration goes on to the
\* cadence sleep; the handler of line 113 takes what it raised
AfterUpload(o) == "ds_sleep"

\* lines 101-115: upload_file returns an id or None, or raises and the
\* exception is handled at line 113
DatasetUpload ==
    /\ pc = "ds_upload"
    /\ \E o \in {"id", "None", "raise"}, d \in UploadTimes :
        /\ now + Sec(d) <= Sec(MaxLoopTime)
        /\ now' = now + Sec(d)
        /\ lp' = [lp EXCEPT !.upload = o]
        /\ pc' = AfterUpload(o)
    /\ UNCHANGED <<stack, returned, outsideLoops, config,
                   consecutive_failures, start_time, loop_start, image_path, result, file,
                   exit_status>>

\* lines 117-122: time.sleep(10); continue
DatasetRecover ==
    /\ pc = "ds_exc_pause"
    /\ now + Sec(FailurePause) <= Sec(MaxLoopTime)
    /\ now' = now + Sec(FailurePause)
    /\ pc' = "ds_top"
    /\ UNCHANGED <<stack, returned, outsideLoops, loopVars>>

\* lines 125-127
Remaining(interval, start, end) == Sec(interval) - (end - start)

\* lines 125-132
DatasetSleep ==
    /\ pc = "ds_sleep"
    /\ LET remaining == Remaining(config.capture_interval, loop_start, now) IN
        /\ now' = IF remaining > 0 THEN now + remaining ELSE now
        /\ now' <= Sec(MaxLoopTime)
    /\ pc' = "ds_top"
    /\ UNCHANGED <<stack, returned, outsideLoops, loopVars>>

(****************************** main.main_loop *****************************)
\* The Veolia settings: client id, client secret, user email, API base URL
VeoliaSet == <<PyStr("set"), PyStr("set"), PyStr("set"), PyStr("set")>>

\* The settings main.py is run with
AlertConfigs ==
    {Config("alert", c, 10, NoDuration, FALSE, PyNone, p, v) :
        c \in Cameras, p \in {PyStr("look for water"), PyStr(""), PyNone},
        v \in {VeoliaSet,
               [VeoliaSet EXCEPT ![1] = PyNone], [VeoliaSet EXCEPT ![2] = PyStr("")],
               [VeoliaSet EXCEPT ![3] = PyNone], [VeoliaSet EXCEPT ![4] = PyNone]}}

\* main.py line 50
VeoliaComplete(v) == Truthy(v[1]) /\ Truthy(v[2]) /\ Truthy(v[3]) /\ Truthy(v[4])

\* main.py lines 34, 50: main_loop goes on to its loop
ConfigurationPresent(c) == Truthy(c.prompt) /\ VeoliaComplete(c.veolia)

\* main.py lines 59-62: the next iteration's capture is called, at time t
AlertIterate(l, t) ==
    /\ pc' = "ml_capture"
    /\ lp' = [l EXCEPT !.captures = @ + 1, !.outcome = "", !.analysis = "", !.swept = FALSE,
                       !.began = t]
    /\ file' = "none"
    /\ UNCHANGED exit_status

\* main.py lines 102-105 and main_loop lines 33-62: with a setting missing
\* main_loop returns and the script ends; otherwise the first capture is called
AlertStart ==
    /\ pc = "idle"
    /\ config = NoConfig
    /\ config' \in AlertConfigs
    /\ IF ConfigurationPresent(config')
       THEN AlertIterate(LpIdle, now)
       ELSE Exits(0, LpIdle, "config") /\ UNCHANGED file
    /\ UNCHANGED <<now, stack, returned, outsideLoops,
                   consecutive_failures, start_time, loop_start, image_path, result>>

\* main.py lines 64-70: the capture call has come to outcome
AlertCaptured(outcome, f) ==
    /\ file' = f
    /\ image_path' = IF outcome = "path" THEN PyStr("path")
                     ELSE IF outcome = "None" THEN PyNone ELSE image_path
    /\ CASE outcome = "None" ->
                Raised("SystemExit", 1, FALSE, Observed(lp, outcome), "fatal")
         [] outcome = "path" ->
                /\ pc' = "ml_analyze"
                /\ lp' = Observed(lp, outcome)
                /\ UNCHANGED exit_status
         [] OTHER ->
                Raised("Exception", 0, FALSE, Observed(lp, outcome), "exception")

\* The capture call of lines 60, 62 runs, up to its return or to the file's
\* being open
AlertCapture ==
    /\ pc = "ml_capture"
    /\ \E o \in CaptureOutcomes(config.camera) :
        /\ now + CaptureTime(config.camera, o) <= Sec(MaxLoopTime)
        /\ now' = now + CaptureTime(config.camera, o)
        /\ IF o = "open"
           THEN /\ pc' = "ml_write"
                /\ file' = "partial"
                /\ UNCHANGED <<image_path, exit_status, lp>>
           ELSE AlertCaptured(o, IF o = "path" THEN "complete" ELSE file)
    /\ UNCHANGED <<stack, returned, outsideLoops, config,
                   consecutive_failures, start_time, loop_start, result>>

\* reolink_camera.py lines 54-66, as in DatasetWrite
AlertWrite ==
    /\ pc = "ml_write"
    /\ \E o \in {"written", "broken"} :
        IF o = "written"
        THEN /\ AlertCaptured("path", "complete")
             /\ UNCHANGED now
        ELSE /\ now + Sec(FailedCaptureTime) <= Sec(MaxLoopTime)
             /\ now' = now + Sec(FailedCaptureTime)
             /\ AlertCaptured("None", "partial")
    /\ UNCHANGED <<stack, returned, outsideLoops, config,
                   consecutive_failures, start_time, loop_start, result>>

\* A body that is a JSON string whose content is a JSON object
ObjectText == "{\"water_detected\": true}"

\* The tokens of a string's content
Lex(x) == IF x = ObjectText THEN WaterObject("true") ELSE <<Lit("no"), Ws, Lit("water")>>

\* The bodies the analysis endpoint may answer the loop with
AlertTexts == AnalysisTexts \cup {<<StrLit(ObjectText)>>}

\* How analyze_image_veolia ends: without a credential, the image unreadable,
\* or with the response r to its last attempt
AnalysisEnds ==
    {[why |-> w, resp |-> ANoResponse] : w \in {"no credential", "unreadable"}}
        \cup {[why |-> "response", resp |-> r] :
                r \in {ATransport, AHttp(500, <<Junk>>)} \cup {AHttp(200, t) : t \in AlertTexts}}

\* What analyze_image_veolia returns then (veolia_analysis.py lines 86, 92,
\* 129, 132, 143)
AnalysisResult(e) ==
    IF e.why = "response" /\ AttemptOutcome(e.resp) = "result"
    THEN JsonLoads(Strip(e.resp.text))
    ELSE PyNone

\* main.py lines 86-87: the result after them, when json.loads does not raise
Decoded(v) == IF v.py = "str" THEN JsonLoads(Lex(v.s)) ELSE v

\* main.py lines 79-94: "no result", "raise" when line 87 or line 88 raises,
\* "alert" or "no alert"
Interpreted(v) ==
    CASE ~Truthy(v) -> "no result"
      [] v.py = "str" /\ JsonDecodeError(Lex(v.s)) -> "raise"
      [] Decoded(v).py # "dict" -> "raise"
      [] Decoded(v).s = "true" -> "alert"
      [] OTHER -> "no alert"

\* The time (seconds) an analysis may take
AnalysisTimes == {0, 5}

\* main.py lines 70-94: the analysis and what the loop makes of its result
AlertAnalyze ==
    /\ pc = "ml_analyze"
    /\ \E e \in AnalysisEnds, d \in AnalysisTimes :
        /\ now + Sec(d) <= Sec(MaxLoopTime)
        /\ now' = now + Sec(d)
        /\ result' = IF Interpreted(AnalysisResult(e)) = "raise"
                     THEN AnalysisResult(e)
                     ELSE Decoded(AnalysisResult(e))
        /\ IF Interpreted(AnalysisResult(e)) = "raise"
           THEN Raised("Exception", 0, FALSE, [lp EXCEPT !.analysis = "raise"], "exception")
           ELSE /\ pc' = "ml_cleanup"
                /\ lp' = [lp EXCEPT !.analysis = Interpreted(AnalysisResult(e))]
                /\ UNCHANGED exit_status
    /\ UNCHANGED <<stack, returned, outsideLoops, config,
                   consecutive_failures, start_time, loop_start, image_path, file>>

\* main.py line 97: cleanup_images handles every file's error itself
AlertCleanup ==
    /\ pc = "ml_cleanup"
    /\ pc' = "ml_sleep"
    /\ lp' = [lp EXCEPT !.swept = TRUE]
    /\ UNCHANGED <<now, stack, returned, outsideLoops, config,
                   consecutive_failures, start_time, loop_start, image_path, result, file,
                   exit_status>>

\* main.py line 100, then the next iteration's lines 59-62
AlertSleep ==
    /\ pc = "ml_sleep"
    /\ now + Sec(config.capture_interval) <= Sec(MaxLoopTime)
    /\ now' = now + Sec(config.capture_interval)
    /\ AlertIterate(lp, now + Sec(config.capture_interval))
    /\ UNCHANGED <<stack, returned, outsideLoops, config,
                   consecutive_failures, start_time, loop_start, image_path, result>>

(****************************** cleanup_images *****************************)
\* A file name: its stem and its extension
FileName(stem, ext) == [stem |-> stem, ext |-> ext]
FileNames == {FileName("a", "jpg"), FileName("b", "jpg"), FileName("c", "png")}

\* helpers.py line 58: glob's pattern *.jpg matches the name
Matches(name) == name.ext = "jpg"

\* The ages (ticks) the files of a directory have when it is swept: on either
\* side of each threshold tried, and a modification time in the future
Ages == {-1, 0, 1, Sec(MaxSweepAge) - 1, Sec(MaxSweepAge), Sec(MaxSweepAge) + 1}

\* What may be wrong with a file: os.path.getmtime raises ("stat"), os.remove
\* raises ("remove")
Faults == {"none", "stat", "remove"}

\* The directories swept at time t; the files that are no images are old
Folders(t) ==
    {fd \in UNION {[S -> [mtime : {t - a : a \in Ages}, fault : Faults]] : S \in SUBSET FileNames} :
        \A n \in DOMAIN fd : ~Matches(n) => fd[n] = [mtime |-> t - Sec(MaxSweepAge) - 1, fault |-> "none"]}

\* The captures have left their files and the caller is about to sweep
FolderFills ==
    /\ pc = "idle"
    /\ sweep = NoSweep
    /\ now' = now + Sec(MaxSweepAge) + 1
    /\ disk' \in Folders(now')
    /\ pc' = "sw_call"
    /\ UNCHANGED <<stack, returned, tokenVars, callVars, cap, dirs, loopVars, sweep, threads>>

\* helpers.py lines 57-58: `before` is the directory as the call found it,
\* files the rest of glob's list, log the lines logged, raised whether an
\* exception ended the call
CleanupCall ==
    /\ pc = "sw_call"
    /\ \E max_age_seconds \in {0, MaxSweepAge} :
        sweep' = [now |-> now, max_age_seconds |-> max_age_seconds,
                  files |-> {n \in DOMAIN disk : Matches(n)},
                  before |-> disk, examined |-> {}, log |-> <<>>, raised |-> FALSE,
                  ret |-> ""]
    /\ pc' = "sw_loop"
    /\ stack' = <<"cleanup_images">>
    /\ UNCHANGED <<now, returned, tokenVars, callVars, captureVars, loopVars, threads>>

FileAgeIsMtime(t, mtime) == mtime

\* line 61
FileAge(t, mtime) == t - mtime

\* line 62
OverAge(age, max_age_seconds) == age > Sec(max_age_seconds)

RestAfterErrorNone(rest) == {}

\* lines 65-66: the files still to examine after one file's error
RestAfterError(rest) == rest

\* The directory without the file name
Removed(fd, name) == [n \in DOMAIN fd \ {name} |-> fd[n]]

\* lines 60-66 for the file name: "error" (getmtime or remove raised),
\* "deleted" or "kept"
FileOutcome(fd, name, t, max_age_seconds) ==
    CASE fd[name].fault = "stat" -> "error"
      [] ~OverAge(FileAge(t, fd[name].mtime), max_age_seconds) -> "kept"
      [] fd[name].fault = "remove" -> "error"
      [] OTHER -> "deleted"

\* lines 59-66: one round of the loop, for any next file of the list; the
\* clock goes on while the files are examined.  The error of getmtime or
\* remove is an OSError, which the except clause of line 65 catches or lets
\* out of the call.
CleanupFile ==
    /\ pc = "sw_loop"
    /\ \E name \in sweep.files, d \in {0, 1} :
        LET o == FileOutcome(disk, name, sweep.now, sweep.max_age_seconds)
            rest == sweep.files \ {name}
            caught == o = "error" => ExceptException("Exception")
        IN  /\ now' = now + d
            /\ disk' = IF o = "deleted" THEN Removed(disk, name) ELSE disk
            /\ sweep' = [sweep EXCEPT
                            !.files = IF o = "error" THEN RestAfterError(rest) ELSE rest,
                            !.examined = @ \cup {name},
                            !.log = IF o = "kept" \/ ~caught
                                    THEN @ ELSE Append(@, [line |-> o, file |-> name]),
                            !.raised = ~caught]
            /\ pc' = IF caught THEN pc ELSE "idle"
            /\ stack' = IF caught THEN stack ELSE <<>>
            /\ returned' = IF caught THEN returned ELSE "cleanup_images"
    /\ UNCHANGED <<tokenVars, callVars, cap, dirs, loopVars, threads>>

\* A count as a Python value
PyCount(n) == [py |-> "int", s |-> ToString(n)]

CleanupResultCount(deleted) == PyCount(deleted)

\* The function ends without a return statement: it returns None, whatever
\* number of files it deleted
CleanupResult(deleted) == PyNone

\* The lines of the log that report a deleted file
DeletedLines(log) == {i \in 1..Len(log) : log[i].line = "deleted"}

\* line 59, the list being exhausted: cleanup_images returns
CleanupReturn ==
    /\ pc = "sw_loop"
    /\ sweep.files = {}
    /\ sweep' = [sweep EXCEPT
                    !.ret = CleanupResult(Cardinality(DOMAIN sweep.before \ DOMAIN disk))]
    /\ pc' = "idle"
    /\ stack' = <<>>
    /\ returned' = "cleanup_images"
    /\ UNCHANGED <<now, tokenVars, callVars, captureVars, loopVars, threads>>

(***************************** specifications ******************************)
\* The credential cache under a caller that calls get_token at any time
NextToken ==
    \/ Tick
    \/ GetTokenCall
    \/ TokenResponse

SpecToken == Init /\ [][NextToken]_vars

\* The analysis client, with its credential cache, under a caller that calls
\* analyze_image_veolia at any time
NextAnalysis ==
    \/ Tick
    \/ AnalyzeCall
    \/ AnalysisTokenResponse
    \/ AnalysisResponse
    \/ AnalysisSleep

SpecAnalysis == Init /\ [][NextAnalysis]_vars

\* The capture sources under a caller that calls either as soon as the last
\* call has ended; time passes in the calls
NextCapture ==
    \/ CaptureLocalCall
    \/ LocalAttempt
    \/ LocalSleep
    \/ CaptureReolinkCall
    \/ ReolinkResponse
    \/ ReolinkSleep

SpecCapture == Init /\ [][NextCapture]_vars

\* capture_dataset.py run as a program
NextDataset ==
    \/ DatasetStart
    \/ DatasetIterate
    \/ DatasetCapture
    \/ DatasetWrite
    \/ DatasetPause
    \/ DatasetUpload
    \/ DatasetRecover
    \/ DatasetSleep

\* main.py run as a program
NextAlert ==
    \/ AlertStart
    \/ AlertCapture
    \/ AlertWrite
    \/ AlertAnalyze
    \/ AlertCleanup
    \/ AlertSleep

\* Either program, under its configurations, cameras, services and shutdown
\* signals
NextLoops ==
    \/ NextDataset
    \/ NextAlert
    \/ Signal

SpecLoops == Init /\ [][NextLoops]_vars

\* The same, every call and every sleep of capture_dataset.py returning
SpecLoopsFair == SpecLoops /\ WF_vars(NextDataset)

\* cleanup_images called on a directory of files of any age, some of which
\* cannot be examined or removed
NextSweep ==
    \/ FolderFills
    \/ CleanupCall
    \/ CleanupFile
    \/ CleanupReturn

SpecSweep == Init /\ [][NextSweep]_vars

\* get_token called by concurrent callers on one VeoliaTokenManager
NextThreads ==
    \/ ThreadsStart
    \/ ThreadsTick
    \/ \E t \in Callers :
        \/ ThreadCall(t)
        \/ ThreadCheck(t)
        \/ ThreadServeCached(t)
        \/ ThreadResponse(t)
        \/ ThreadStoreToken(t)
        \/ ThreadStoreExpiry(t)

SpecThreads == Init /\ [][NextThreads]_vars

(************************ claims: credential cache *************************)
\* A step that is a direct get_token call
GetTokenStep == pc = "idle" /\ (returned' = "get_token" \/ stack' = <<"get_token">>)

\* The cache as the claims describe it: a token is cached and now < expiry - 60 s
Fresh == Truthy(token) /\ now < expiry - 60 * TicksPerSec

\* C1 as stated: every token get_token returns has more than the 60 s margin
\* left at the time of the call, whatever lifetime the exchange gave it.
C1_MarginForEveryLifetime ==
    (returned = "get_token" /\ Truthy(gt.ret))
        => current_time < expiry - 60 * TicksPerSec

\* C1 amended: a token served from the cache has more than the 60 s margin
\* left; a token from a fresh exchange is cached with expiry = call time +
\* lifetime, so it has the margin left exactly when its lifetime exceeds 60 s.
C1_MarginOnHitOrLongLifetime ==
    (returned = "get_token" /\ Truthy(gt.ret))
        => /\ gt.reqs = 0 => current_time < expiry - 60 * TicksPerSec
           /\ gt.reqs = 1 =>
                /\ expiry = current_time + life
                /\ (current_time < expiry - 60 * TicksPerSec) <=> (life > 60 * TicksPerSec)

C1_Witness ==
    /\ returned = "get_token" /\ Truthy(gt.ret) /\ gt.reqs = 0
    /\ current_time > expiry - life

\* C2: a get_token call made while a token is cached and now < expiry - 60 s
\* returns the cached token, issues no request and leaves token and expiry as
\* they were.
C2_FreshCacheServed ==
    [][(GetTokenStep /\ Fresh)
        => /\ pc' = "idle" /\ returned' = "get_token"
           /\ gt'.ret = token /\ gt'.reqs = 0
           /\ token' = token /\ expiry' = expiry]_vars

C2_Witness ==
    /\ returned = "get_token" /\ gt.reqs = 0 /\ gt.ret = PyStr("abc")
    /\ token = PyStr("abc") /\ life = 70 * TicksPerSec /\ now >= 5 * TicksPerSec

\* A successful exchange whose expires_in is the integer n, given as a number
\* or as its decimal numeral
Succeeded(r, n) ==
    /\ r.kind = "http" /\ r.status = 200 /\ r.body.json /\ r.body.has_token
    /\ \/ r.body.expires_in = ExpInt(n)
       \/ n = 70 /\ r.body.expires_in = ExpStr(<<"7", "0">>)

\* C3: a get_token call made while the cache is empty or now >= expiry - 60 s
\* issues exactly one exchange request; when the exchange succeeds the token
\* returned and cached is the response's, and the expiry is the time of the
\* call plus expires_in.
C3_OneRefreshAndExpiry ==
    /\ [][(GetTokenStep /\ ~Fresh) => (pc' = "gt_post" /\ gt'.reqs = 1)]_vars
    /\ [](returned = "get_token" /\ gt.resp # NoResponse
            => /\ gt.reqs = 1
               /\ \A n \in {10, 60, 61, 70} :
                    Succeeded(gt.resp, n)
                        => /\ gt.ret = gt.resp.body.access_token
                           /\ token = gt.resp.body.access_token
                           /\ expiry = current_time + n * TicksPerSec)

C3_Witness ==
    /\ returned = "get_token" /\ gt.reqs = 1
    /\ gt.resp = Http(200, JsonBody(PyStr("abc"), ExpInt(70)))
    /\ now > current_time /\ current_time > 0
    /\ expiry = current_time + 70 * TicksPerSec

\* The call is made d seconds after the call whose exchange returned
\* expires_in = 10 and set the cached expiry
AfterTenSecondExchange(d) ==
    Truthy(token) /\ life = 10 * TicksPerSec /\ now = (expiry - life) + d * TicksPerSec

\* C4 as stated: after an exchange with expires_in = 10, a call 5 s later
\* reuses the token without a request, and a call 11 s later refreshes.
C4_ReusedAfterFiveSeconds ==
    /\ [][(GetTokenStep /\ AfterTenSecondExchange(5))
            => (returned' = "get_token" /\ gt'.ret = token /\ gt'.reqs = 0)]_vars
    /\ [][(GetTokenStep /\ AfterTenSecondExchange(11))
            => (pc' = "gt_post" /\ gt'.reqs = 1)]_vars

\* C4 amended: after an exchange with expires_in = 10, a call 5 s later issues
\* a refresh request (5 s is not before expiry - 60 s), and so does a call
\* 11 s later.
C4_RefreshAfterFiveAndEleven ==
    [][\A d \in {5, 11} :
        (GetTokenStep /\ AfterTenSecondExchange(d))
            => (pc' = "gt_post" /\ gt'.reqs = 1 /\ returned' = "")]_vars

C4_Witness ==
    /\ pc = "gt_post" /\ stack = <<"get_token">> /\ gt.reqs = 1
    /\ Truthy(token) /\ life = 10 * TicksPerSec
    /\ current_time = (expiry - life) + 5 * TicksPerSec

\* A non-2xx response or a transport exception
ExchangeFailed(r) ==
    \/ r.kind = "exc"
    \/ r.kind = "http" /\ (r.status < 200 \/ r.status > 299)

\* C5: when the exchange request gets a non-2xx response or raises, token and
\* expiry are what they were before the call, get_token returns None, and
\* the call issues no second request.
C5_FailureLeavesCache ==
    [][(pc = "gt_post" /\ ExchangeFailed(gt'.resp))
        => /\ token' = token /\ expiry' = expiry
           /\ gt'.ret = PyNone /\ gt'.reqs = 1
           /\ pc' # "gt_post"
           /\ (stack = <<"get_token">> => (pc' = "idle" /\ returned' = "get_token"))]_vars

C5_Witness ==
    /\ returned = "get_token" /\ gt.resp = Transport /\ gt.reqs = 1
    /\ gt.ret = PyNone /\ token = PyStr("abc") /\ expiry > 0

(************************* claims: analysis client *************************)
\* An attempt that ended in a non-200 response or a transport exception
AttemptFailed(r) == r.kind = "exc" \/ (r.kind = "http" /\ r.status # 200)

InCall == pc \in {"an_post", "an_sleep"} \/ returned = "analyze_image_veolia"

\* The bodies of the model that are not JSON
MalformedTexts ==
    {<<>>, <<Junk>>, <<Punct("{"), StrLit("water_detected"), Punct(":")>>}

\* C7: a failed attempt is followed by another until retries requests have
\* been sent, never more than retries are sent, and when all of them fail the
\* call returns None.
C7_RetriesUntilExhausted ==
    /\ InCall => an.reqs <= retries
    /\ pc = "an_post" => an.reqs = an.fails + 1
    /\ pc = "an_sleep" => (an.reqs = an.fails /\ AttemptFailed(an.resp))
    /\ (returned = "analyze_image_veolia" /\ AttemptFailed(an.resp))
          => (an.reqs = retries /\ an.fails = retries /\ an.ret = PyNone)

C7_Witness ==
    /\ returned = "analyze_image_veolia" /\ retries = 3
    /\ an.reqs = 3 /\ an.fails = 3 /\ an.ret = PyNone /\ an.resp = AHttp(500, <<Junk>>)

\* C8: when the first j < retries attempts fail and the next gets HTTP 200
\* with a valid JSON body, the call returns the parsed object after exactly
\* j + 1 requests; 500, 500, 200 with retries = 3 returns it after 3 requests.
C8_ResultAfterFailures ==
    (returned = "analyze_image_veolia" /\ an.resp.kind = "http" /\ an.resp.status = 200
        /\ an.resp.text \notin MalformedTexts)
        => /\ an.reqs = an.fails + 1
           /\ an.fails < retries
           /\ an.ret = JsonLoads(an.resp.text)
           /\ an.resp.text = WaterObject("true") => an.ret = PyDict("true")
           /\ an.resp.text = WaterObject("false") => an.ret = PyDict("false")

C8_Witness ==
    /\ returned = "analyze_image_veolia" /\ retries = 3
    /\ an.fails = 2 /\ an.reqs = 3
    /\ an.resp = AHttp(200, WaterObject("true")) /\ an.ret = PyDict("true")

\* C9 as stated: the delay slept before attempt k lies in [2^k, 2^k + 1) s.
C9_DelayBeforeAttempt ==
    (pc = "an_post" /\ an.sleeps > 0)
        => /\ (2 ^ attempt) * TicksPerSec <= an.delay
           /\ an.delay < (2 ^ attempt + 1) * TicksPerSec

\* C9 amended: the delay slept after failed attempt k lies in [2^k, 2^k + 1) s,
\* so the delay before attempt k >= 1 lies in [2^(k-1), 2^(k-1) + 1) s, and no
\* delay precedes attempt 0.
C9_DelayAfterAttempt ==
    /\ (InCall /\ an.sleeps > 0)
          => /\ (2 ^ an.delayAfter) * TicksPerSec <= an.delay
             /\ an.delay < (2 ^ an.delayAfter + 1) * TicksPerSec
             /\ an.delayAfter = attempt - 1
             /\ an.sleeps = attempt
    /\ (pc = "an_post" /\ attempt = 0) => an.sleeps = 0

C9_Witness ==
    /\ pc = "an_post" /\ attempt = 2 /\ an.sleeps = 2
    /\ an.delay = 2 * TicksPerSec + 1

\* C10: HTTP 200 with a body that is not JSON ends the call at once with
\* None: no further request, no backoff sleep, whatever attempts remain.
C10_MalformedNotRetried ==
    (an.resp.kind = "http" /\ an.resp.status = 200 /\ an.resp.text \in MalformedTexts)
        => /\ pc = "idle" /\ returned = "analyze_image_veolia"
           /\ an.ret = PyNone
           /\ an.reqs = an.fails + 1
           /\ an.sleeps = an.fails

C10_Witness ==
    /\ returned = "analyze_image_veolia" /\ retries = 3
    /\ an.resp = AHttp(200, <<Junk>>) /\ an.reqs = 2 /\ an.fails = 1 /\ an.ret = PyNone

(************************* claims: capture sources *************************)
CaptureReturned == returned \in {"capture_image_local", "capture_image_reolink"}

\* C6: called with retries = N, capture_image_local and capture_image_reolink
\* make exactly N backend attempts and return None when every attempt fails,
\* and return the path after exactly i attempts, with none after it, when
\* attempt i <= N is the first to succeed.  (A call that never reaches the
\* backend, the camera parameters being incomplete, makes no attempt.)
C6_AttemptsCounted ==
    /\ pc \in {"cl_read", "cr_get"}
          => (cap.attempts = cap.attempt /\ cap.fails = cap.attempt /\ cap.attempt < cap.retries)
    /\ pc \in {"cl_sleep", "cr_sleep"}
          => (cap.attempts = cap.attempt + 1 /\ cap.fails = cap.attempts
              /\ cap.attempts <= cap.retries)
    /\ (CaptureReturned /\ cap.ret = "None" /\ cap.configured)
          => (cap.attempts = cap.retries /\ cap.fails = cap.retries)
    /\ (CaptureReturned /\ cap.ret = "path")
          => (cap.attempts = cap.fails + 1 /\ cap.attempts <= cap.retries)

C6_Witness ==
    /\ returned = "capture_image_reolink" /\ cap.ret = "path"
    /\ cap.retries = 3 /\ cap.fails = 2 /\ cap.attempts = 3

(**************************** claims: the loops *****************************)
Exited == pc = "exited"

InDataset == config.program = "dataset"
InAlert == config.program = "alert"

\* The step ends a capture call that returned None, returned a path, or
\* raised, or ends the iteration by an exception before the capture call
CaptureEndsWith(outcome) ==
    /\ \/ /\ pc \in {"ds_capture", "ds_write", "ml_capture", "ml_write"}
          /\ pc' \notin {"ds_capture", "ds_write", "ml_capture", "ml_write"}
       \/ pc = "ds_top" /\ pc' = "ds_exc_pause"
    /\ ~lp'.signalled
    /\ lp'.outcome = outcome

\* C11: in the dataset-collection loop the process ends with a non-zero status
\* exactly when the 10th capture in a row has returned None: with 9 or fewer
\* in a row it runs on (or ends with status 0 on a signal or on the maximum
\* duration), and a capture that returns a path sets the counter to 0.
C11_FatalOnTenthFailure ==
    /\ [](InDataset =>
            /\ lp.run <= 10
            /\ consecutive_failures = lp.run
            /\ lp.run = 10 => (Exited /\ exit_status # 0)
            /\ (Exited /\ exit_status # 0) => (lp.run = 10 /\ lp.outcome = "None")
            /\ (lp.run < 10 /\ Exited) => (exit_status = 0 /\ lp.cause \in {"signal", "duration"}))
    /\ [][(InDataset /\ CaptureEndsWith("path")) => consecutive_failures' = 0]_vars

C11_Witness ==
    /\ InDataset /\ Exited /\ exit_status = 1 /\ lp.cause = "fatal"
    /\ lp.run = 10 /\ lp.captures > 10
    /\ config.camera.type = "local"

\* C12 as stated: consecutive_failures increases by exactly 1 in every
\* iteration that ends without a captured image, also when the iteration ends
\* by an exception, changes in no other way, and is set to 0 only by a capture
\* that returned a path.
C12_CountsEveryFailedIteration ==
    [][InDataset =>
        /\ (CaptureEndsWith("None") \/ CaptureEndsWith("raise"))
              => consecutive_failures' = consecutive_failures + 1
        /\ CaptureEndsWith("path") => consecutive_failures' = 0
        /\ consecutive_failures' # consecutive_failures
              => \/ CaptureEndsWith("None") \/ CaptureEndsWith("raise")
                 \/ CaptureEndsWith("path")]_vars

\* C12 amended: consecutive_failures increases by exactly 1 in every iteration
\* whose capture returned None, is left as it is by an iteration that an
\* exception ends, changes in no other way, and is set to 0 only by a capture
\* that returned a path.
C12_CountsReturnedFailures ==
    [][InDataset =>
        /\ CaptureEndsWith("None") => consecutive_failures' = consecutive_failures + 1
        /\ CaptureEndsWith("raise") => consecutive_failures' = consecutive_failures
        /\ CaptureEndsWith("path") => consecutive_failures' = 0
        /\ consecutive_failures' # consecutive_failures
              => (CaptureEndsWith("None") \/ CaptureEndsWith("path"))]_vars

C12_Witness ==
    /\ InDataset /\ pc = "ds_exc_pause" /\ lp.outcome = "raise"
    /\ consecutive_failures = 2 /\ lp.captures >= 3

\* C13: in the alerting loop a capture that returned None does not end the
\* process by itself: the process ends with a non-zero status on a failed
\* capture only when 10 captures in a row have failed, and otherwise the loop
\* goes on.
C13_CaptureFailureNotFatal ==
    (InAlert /\ Exited /\ lp.cause = "fatal") => lp.run >= MAX_CONSECUTIVE_FAILURES

\* C14: in both loops no exception raised inside an iteration ends the
\* process: the loop catches it, pauses and starts another iteration.
C14_NoExceptionEscapes ==
    Exited => lp.cause # "exception"

\* C15: in the alerting loop an analysis that ends in an error (no
\* credential, attempts exhausted, malformed response, a result that cannot be
\* interpreted) does not end the loop and is not counted as a capture failure:
\* the iteration goes on to the sweep.
C15_AnalysisErrorSkipsDecision ==
    [][(pc = "ml_analyze" /\ ~lp'.signalled /\ lp'.analysis \in {"no result", "raise"})
        => (pc' = "ml_cleanup" /\ consecutive_failures' = consecutive_failures
            /\ lp'.run = lp.run)]_vars

\* C16: once a shutdown signal has been delivered, wherever either loop was,
\* the process has exited with status 0.
C16_SignalExitsWithZero ==
    lp.signalled => (Exited /\ exit_status = 0 /\ lp.cause = "signal")

C16_Witness ==
    /\ InDataset /\ lp.signalled /\ Exited /\ exit_status = 0
    /\ lp.at = "ds_pause" /\ consecutive_failures = 9

\* C17: a shutdown signal that arrives while the image file is being written
\* does not end the process before the write has completed: no partly written
\* file is there when the process has exited.
C17_WriteCompletesBeforeExit ==
    (Exited /\ lp.signalled /\ lp.at \in {"ds_write", "ml_write"}) => file = "complete"

\* C18: in the dataset-collection loop with a maximum duration configured, an
\* iteration that starts when the elapsed time has reached the maximum ends
\* the process with status 0 and starts no capture, upload or sleep; nothing
\* follows the exit; and the loop ends for this reason only with a maximum
\* configured and reached.
C18_DurationEndsLoop ==
    /\ [][(InDataset /\ pc = "ds_top" /\ config.max_duration_seconds.set
            /\ now - start_time >= config.max_duration_seconds.v * TicksPerSec)
          => /\ pc' = "exited" /\ exit_status' = 0
             /\ now' = now /\ lp'.captures = lp.captures /\ lp'.upload = lp.upload]_vars
    /\ [][~Exited]_vars
    /\ [](lp.cause = "duration"
            => /\ Exited /\ exit_status = 0 /\ config.max_duration_seconds.set
               /\ now - start_time >= config.max_duration_seconds.v * TicksPerSec)

C18_Witness ==
    /\ InDataset /\ Exited /\ lp.cause = "duration" /\ exit_status = 0
    /\ config.max_duration_seconds = Duration(25) /\ lp.captures >= 2
    /\ now - start_time > 25 * TicksPerSec

\* C19: started without a prompt or without one of the four Veolia settings,
\* the alerting program ends with a non-zero status and makes no capture.
C19_MissingConfigurationFatal ==
    (InAlert /\ (~Truthy(config.prompt) \/ \E i \in 1..4 : ~Truthy(config.veolia[i])))
        => (Exited /\ exit_status # 0 /\ lp.captures = 0)

\* C20: with the network camera configured and its host, user or password
\* missing, the process ends on the capture call that finds it: the capture is
\* not called again.
C20_MissingCameraParametersFatal ==
    (config # NoConfig /\ config.camera.type = "reolink" /\ lp.outcome = "None"
        /\ (~Truthy(config.camera.ip) \/ ~Truthy(config.camera.user)
            \/ ~Truthy(config.camera.password)))
        => (Exited /\ lp.captures = 1)

(**************************** claims: the sweep ****************************)
\* The age, at the time the call read, of a file the call found
SweptAge(name) == sweep.now - sweep.before[name].mtime
SweepThreshold == Sec(sweep.max_age_seconds)
SweepEnded == returned = "cleanup_images"
SweptAway == DOMAIN sweep.before \ DOMAIN disk

\* C21: when cleanup_images(dir, maxAge) has returned, every *.jpg file of dir
\* whose age now - mtime (now read once, at the call) was greater than maxAge
\* and that could be examined and removed is gone, every file whose age was
\* less than maxAge is still there, and a file is gone only if it matched
\* *.jpg and was older than maxAge.
C21_SweepDeletesOldKeepsNew ==
    SweepEnded =>
        \A name \in DOMAIN sweep.before :
            /\ (Matches(name) /\ SweptAge(name) > SweepThreshold
                    /\ sweep.before[name].fault = "none") => name \notin DOMAIN disk
            /\ SweptAge(name) < SweepThreshold => name \in DOMAIN disk
            /\ name \notin DOMAIN disk => (Matches(name) /\ SweptAge(name) > SweepThreshold)

\* A sweep that deleted one image, kept a newer one and one of exactly the
\* threshold's age, while the clock went on
C21_Witness ==
    /\ SweepEnded
    /\ sweep.max_age_seconds > 0
    /\ now > sweep.now
    /\ \E old, young \in DOMAIN sweep.before :
        /\ SweptAge(old) > SweepThreshold /\ old \notin DOMAIN disk
        /\ SweptAge(young) <= SweepThreshold /\ SweptAge(young) >= 0
        /\ Matches(young) /\ young \in DOMAIN disk
    /\ \E other \in DOMAIN disk : ~Matches(other) /\ SweptAge(other) > SweepThreshold

\* C22: in cleanup_images a failure to stat or to delete one file does not
\* stop the sweep: when the call has ended every matching file has been
\* examined, every over-age one that can be removed is gone, and the call
\* ended by returning, not by an exception.
C22_FileErrorDoesNotStopSweep ==
    SweepEnded =>
        /\ ~sweep.raised
        /\ sweep.examined = {name \in DOMAIN sweep.before : Matches(name)}
        /\ \A name \in DOMAIN sweep.before :
            (Matches(name) /\ SweptAge(name) > SweepThreshold
                /\ sweep.before[name].fault = "none") => name \notin DOMAIN disk

\* A sweep that logged one file's error and deleted another file after it
C22_Witness ==
    /\ SweepEnded
    /\ \E i, j \in 1..Len(sweep.log) :
        /\ i < j
        /\ sweep.log[i].line = "error"
        /\ sweep.log[j].line = "deleted"

\* C23, as stated: the value cleanup_images returns is the number of files it
\* removed during the call.
C23_ReturnsDeletedCount ==
    SweepEnded => sweep.ret = PyCount(Cardinality(SweptAway))

\* C23, amended: cleanup_images returns None; the number of files it removed
\* during the call is the number of "Deleted old image" lines it logged.
C23_ReturnsNoneLogsEachDeletion ==
    SweepEnded =>
        /\ sweep.ret = PyNone
        /\ Cardinality(DeletedLines(sweep.log)) = Cardinality(SweptAway)
        /\ {sweep.log[i].file : i \in DeletedLines(sweep.log)} = SweptAway

\* A sweep that removed two files
C23_Witness ==
    /\ SweepEnded
    /\ Cardinality(SweptAway) = 2

(*********************** claims: concurrent callers ************************)
\* The threads between the failed test of the cache and the end of their refresh
Refreshing == {t \in DOMAIN threads : threads[t].at \in {"post", "store_token", "store_expiry"}}

\* C24: with get_token called concurrently on one VeoliaTokenManager, the
\* refresh is mutually exclusive: at no time is more than one caller between
\* the test of the cache and the storing of the new token and expiry, so that
\* no second credential exchange is sent while one is under way.
C24_RefreshMutuallyExclusive ==
    Cardinality(Refreshing) <= 1

(*********************** claims: the loops' phases *************************)
FailedUploads == {"None", "raise"}

\* The larger of 0 and n
Max0(n) == IF n > 0 THEN n ELSE 0

\* C25: in the dataset-collection loop an upload that fails (upload_file
\* returns no id, or raises) leaves consecutive_failures as it is and does not
\* end the process: the iteration goes on to the cadence sleep and from there
\* to the top of the loop, and a process that ends before its next capture
\* ends with status 0, on a signal or on the maximum duration.
C25_FailedUploadNotFatal ==
    /\ [][InDataset =>
            /\ (pc = "ds_upload" /\ lp'.upload \in FailedUploads) =>
                    /\ consecutive_failures' = consecutive_failures
                    /\ exit_status' = exit_status
                    /\ pc' = "ds_sleep"
            /\ (pc = "ds_sleep" /\ lp.upload \in FailedUploads /\ pc' # pc) =>
                    (pc' = "ds_top" \/ lp'.signalled)]_vars
    /\ []((InDataset /\ lp.upload \in FailedUploads) =>
            /\ consecutive_failures = 0
            /\ Exited => (exit_status = 0 /\ lp.cause \in {"signal", "duration"}))

\* The loop is back at its top after an upload that raised and the cadence
\* sleep that followed it
C25_Witness ==
    /\ InDataset
    /\ pc = "ds_top"
    /\ lp.upload = "raise"
    /\ lp.captures >= 2
    /\ now > lp.began

\* C26: at the end of every completed iteration of duration d, the alerting
\* loop and the dataset-collection loop sleep exactly max(0, interval - d).
C26_SleepsTheRemainder ==
    [][(pc \in {"ds_sleep", "ml_sleep"} /\ pc' # pc /\ ~lp'.signalled) =>
            now' - now = Max0(Sec(config.capture_interval) - (now - lp.began))]_vars

\* C27: in the dataset-collection loop an iteration whose capture returns
\* None with the counter below the maximum pauses 10 s and goes back to the
\* top of the loop, with no upload and no cadence sleep; and an upload is
\* made only in an iteration whose capture returned an image path.
C27_FailedCaptureRestartsIteration ==
    /\ [][InDataset =>
            /\ (CaptureEndsWith("None") /\ pc' # "exited") => pc' = "ds_pause"
            /\ (pc = "ds_pause" /\ pc' # pc /\ ~lp'.signalled) =>
                    /\ pc' = "ds_top"
                    /\ now' = now + Sec(10)
                    /\ lp'.upload = ""
            /\ pc' = "ds_sleep" => lp'.outcome = "path"]_vars
    /\ []((InDataset /\ (pc = "ds_upload" \/ lp.upload # "")) =>
            (lp.outcome = "path" /\ image_path = PyStr("path") /\ file = "complete"))

\* The loop is back at its top, 15 s after the start of an iteration whose
\* capture failed, with uploads configured and none made
C27_Witness ==
    /\ InDataset
    /\ pc = "ds_top"
    /\ lp.outcome = "None"
    /\ lp.run >= 1 /\ lp.run < MAX_CONSECUTIVE_FAILURES
    /\ UploadTried(config)
    /\ lp.upload = ""
    /\ now = lp.began + Sec(FailedCaptureTime) + Sec(FailurePause)

\* C28: in the alerting loop the phases of an iteration come in the order
\* capture, analyze, sweep, sleep: the analysis starts only when the capture
\* of the iteration has returned a path, the sweep follows the analysis
\* whatever the analysis came to and is made once, and the next capture
\* starts only after the sleep of a swept iteration.
C28_PhasesInOrder ==
    [][InAlert =>
        /\ (pc' = "ml_analyze" /\ pc' # pc) => CaptureEndsWith("path")
        /\ (pc = "ml_analyze" /\ ~lp'.signalled) => pc' = "ml_cleanup"
        /\ (pc = "ml_cleanup" /\ ~lp'.signalled) =>
                (pc' = "ml_sleep" /\ ~lp.swept /\ lp'.swept)
        /\ (pc' = "ml_capture" /\ pc' # pc) =>
                (pc = "ml_sleep" /\ lp.swept /\ now' > now)]_vars

\* C29: in the alerting loop, for every result the analysis returns, an object
\* or a string, the loop logs an alert exactly when the field water_detected
\* of the (parsed) result is true, logs the clear state otherwise, and goes on
\* to the sweep.
C29_AlertIffWaterDetected ==
    [][(InAlert /\ pc = "ml_analyze" /\ ~lp'.signalled /\ result'.py \in {"dict", "str"}) =>
            /\ pc' = "ml_cleanup"
            /\ lp'.analysis = (IF result' = PyDict("true") THEN "alert" ELSE "no alert")]_vars

(********************* claims: the local camera's handle *******************)
\* C30: in capture_image_local at most one device handle is open at any
\* time, and none is open once the call has ended, however the read ended.
C30_HandleReleasedOnEveryPath ==
    /\ cap.handles <= 1
    /\ returned = "capture_image_local" => cap.handles = 0

(******************** claims: calls that end at once ***********************)
\* The call c was made with the camera's host, user or password absent
ParamAbsent(c) == \E i \in 1..Len(c.params) : c.params[i] \in {PyNone, PyStr("")}

\* C31: capture_image_reolink called with host, user or password absent
\* returns None without a request, without a sleep, and without creating the
\* destination directory or a file, whatever the retries argument.
C31_IncompleteConfigFailsFast ==
    /\ [](ParamAbsent(cap) =>
            /\ pc = "idle" /\ returned = "capture_image_reolink"
            /\ cap.ret = "None" /\ cap.attempts = 0 /\ cap.sleeps = 0)
    /\ [][ParamAbsent(cap') => (dirs' = dirs /\ disk' = disk /\ now' = now)]_vars

\* Such a call, made with retries = MaxRetries before any directory existed
C31_Witness ==
    /\ returned = "capture_image_reolink"
    /\ cap.params = <<PyStr("set"), PyStr("set"), PyNone>>
    /\ cap.retries = MaxRetries
    /\ cap.ret = "None"
    /\ ~dirs /\ disk = EmptyDisk

\* C32: when the image file cannot be read or encoded, analyze_image_veolia
\* returns None without a call of get_token, without a request to the
\* analysis endpoint and without a sleep, and leaves the cached token and
\* expiry as they were.
C32_UnreadableImageEndsCall ==
    /\ [](~an.readable =>
            /\ pc = "idle" /\ returned = "analyze_image_veolia"
            /\ an.ret = PyNone
            /\ an.gtCalls = 0 /\ an.reqs = 0 /\ an.sleeps = 0)
    /\ [][~an'.readable =>
            (token' = token /\ expiry' = expiry /\ gt' = gt /\ now' = now)]_vars

\* Such a call, made when the cache held a token that had run out
C32_Witness ==
    /\ returned = "analyze_image_veolia"
    /\ ~an.readable
    /\ retries = MaxRetries
    /\ Truthy(token) /\ ~CacheHit(token, expiry, now)

\* C33: when get_token yields no token (None, or an empty string),
\* analyze_image_veolia returns None with no request sent to the analysis
\* endpoint and no backoff sleep.
C33_NoTokenEndsCall ==
    /\ [](an.gtCalls = 1 /\ pc \in {"an_post", "an_sleep"} => Truthy(gt.ret))
    /\ []((returned = "analyze_image_veolia" /\ an.gtCalls = 1 /\ ~Truthy(gt.ret)) =>
            /\ an.ret = PyNone
            /\ an.reqs = 0 /\ an.fails = 0 /\ an.sleeps = 0)

\* Such a call with retries = MaxRetries, the exchange having answered 500
C33_Witness ==
    /\ returned = "analyze_image_veolia"
    /\ an.gtCalls = 1
    /\ gt.resp = Http(500, NoBody)
    /\ gt.ret = PyNone
    /\ retries = MaxRetries

(******************** claims: the token within one call ********************)
\* C34: a call of analyze_image_veolia calls get_token at most once, before
\* its first attempt, and makes at most one credential exchange; every
\* attempt carries the token that call returned, and no attempt, whatever
\* its response, changes the cached token or expiry or calls get_token again.
C34_OneTokenPerCall ==
    /\ [](/\ an.gtCalls <= 1
          /\ an.gtCalls = 1 => gt.reqs <= 1
          /\ an.reqs > 0 => (an.gtCalls = 1 /\ access_token = gt.ret /\ Truthy(access_token)))
    /\ [][(pc \in {"an_post", "an_sleep"}) =>
            /\ access_token' = access_token
            /\ an'.gtCalls = an.gtCalls
            /\ (gt' = gt /\ token' = token /\ expiry' = expiry)]_vars

\* A call whose every attempt was answered 401, the token having been
\* fetched by the call itself
C34_Witness ==
    /\ returned = "analyze_image_veolia"
    /\ an.gtCalls = 1 /\ gt.reqs = 1
    /\ an.reqs = MaxRetries /\ an.fails = MaxRetries
    /\ an.resp = AHttp(401, <<Junk>>)
    /\ access_token = PyStr("abc")

\* C35: the cached token and expiry change together: a step of get_token
\* that changes the token stores the expiry of the same response, and no step
\* changes the one and leaves the other as it was before the exchange.
C35_TokenAndExpiryChangeTogether ==
    [][(token' # token) =>
            /\ ExpiryAssigned(gt'.resp)
            /\ token' = gt'.resp.body.access_token
            /\ expiry' = NewExpiry(current_time, now', gt'.resp.body.expires_in)]_vars

(********************* claims: the dataset loop's bounds *******************)
\* C36: in the dataset-collection loop 0 <= consecutive_failures <
\* MAX_CONSECUTIVE_FAILURES holds whenever a capture is started or under way,
\* after any sequence of capture successes and failures, upload failures and
\* caught exceptions; the counter is never above the maximum, and it equals
\* the maximum only once the process has ended with status 1.
C36_CounterBelowMaximum ==
    InDataset =>
        /\ consecutive_failures >= 0
        /\ consecutive_failures <= MAX_CONSECUTIVE_FAILURES
        /\ pc \in {"ds_top", "ds_capture", "ds_write"}
                => consecutive_failures < MAX_CONSECUTIVE_FAILURES
        /\ consecutive_failures = MAX_CONSECUTIVE_FAILURES
                => (Exited /\ exit_status = 1 /\ lp.cause = "fatal")

\* A capture is started with the counter one below the maximum, after an
\* upload that failed and an exception that was caught
C36_Witness ==
    /\ InDataset
    /\ pc = "ds_capture"
    /\ consecutive_failures = MAX_CONSECUTIVE_FAILURES - 1
    /\ lp.captures > MAX_CONSECUTIVE_FAILURES

(******************** claims: the network camera's file ********************)
\* C37: when capture_image_reolink returns None it has left no image file at
\* its destination path: a file is created or changed there only by an
\* attempt that ends in success.
C37_FailureLeavesNoFile ==
    /\ (returned = "capture_image_reolink" /\ cap.configured /\ cap.ret = "None") =>
            (cap.path \in DOMAIN disk => disk[cap.path].complete)
    /\ pc = "cr_sleep" => (cap.path \in DOMAIN disk => disk[cap.path].complete)

\* The dataset loop runs with a maximum duration
DurationSet == InDataset /\ config.max_duration_seconds.set

\* C38: the dataset-collection loop with a maximum run duration configured
\* eventually terminates, whatever the captures, the uploads and the caught
\* exceptions come to, every call and sleep returning; left to itself it
\* ends with status 0 at the duration check or with status 1 at the failure
\* threshold.
C38_DatasetLoopTerminates ==
    /\ DurationSet ~> Exited
    /\ []((DurationSet /\ Exited /\ ~lp.signalled) =>
            \/ exit_status = 0 /\ lp.cause = "duration"
            \/ exit_status = 1 /\ lp.cause = "fatal")

\* The loop has ended at the failure threshold before its maximum duration
C38_Witness ==
    /\ DurationSet /\ Exited
    /\ exit_status = 1 /\ lp.cause = "fatal"
    /\ config.max_duration_seconds.v = LongDuration
    /\ now - start_time < Sec(LongDuration)

====
